---- MODULE Spec2Model ----
(***************************************************************************)
(* Model of principalcalc.py: the simple-interest calculator               *)
(* (calculate_investment), the validated input collection                  *)
(* (get_user_input) and the interactive rollover loop (handle_rollovers).  *)
(*                                                                         *)
(* Python floats are modelled by exact rational arithmetic: a number is a  *)
(* record [n, d] of arbitrary-size integers (digit sequences), so that no  *)
(* value of the model overflows and equalities are those of the reals.     *)
(***************************************************************************)
EXTENDS Integers, Sequences, FiniteSets, TLC

(***************************************************************************)
(* Arbitrary-size integers: sign and little-endian digit sequence.         *)
(***************************************************************************)
Base == 1000

RECURSIVE MagOfNat(_)
MagOfNat(k) == IF k = 0 THEN << >> ELSE << k % Base >> \o MagOfNat(k \div Base)

RECURSIVE MagStrip(_)
MagStrip(a) ==
  IF a = << >> THEN << >>
  ELSE IF a[Len(a)] = 0 THEN MagStrip(SubSeq(a, 1, Len(a) - 1)) ELSE a

Digit(a, i) == IF i <= Len(a) THEN a[i] ELSE 0

RECURSIVE MagAddC(_, _, _)
MagAddC(a, b, c) ==
  IF a = << >> /\ b = << >>
  THEN (IF c = 0 THEN << >> ELSE << c >>)
  ELSE LET s == Digit(a, 1) + Digit(b, 1) + c
       IN  << s % Base >> \o
           MagAddC(IF a = << >> THEN a ELSE Tail(a),
                   IF b = << >> THEN b ELSE Tail(b), s \div Base)

MagAdd(a, b) == MagAddC(a, b, 0)

\* a - b for a >= b
RECURSIVE MagSubC(_, _, _)
MagSubC(a, b, c) ==
  IF a = << >> THEN << >>
  ELSE LET s == a[1] - Digit(b, 1) - c
       IN  << (s + Base) % Base >> \o
           MagSubC(Tail(a), IF b = << >> THEN b ELSE Tail(b),
                   IF s < 0 THEN 1 ELSE 0)

MagSub(a, b) == MagStrip(MagSubC(a, b, 0))

\* -1, 0, 1 as a < b, a = b, a > b (both without leading zeros)
RECURSIVE MagCmp(_, _)
MagCmp(a, b) ==
  IF Len(a) # Len(b) THEN (IF Len(a) < Len(b) THEN -1 ELSE 1)
  ELSE IF a = << >> THEN 0
  ELSE LET n == Len(a)
       IN  IF a[n] # b[n] THEN (IF a[n] < b[n] THEN -1 ELSE 1)
           ELSE MagCmp(SubSeq(a, 1, n - 1), SubSeq(b, 1, n - 1))

\* a times one digit k
RECURSIVE MagMulDC(_, _, _)
MagMulDC(a, k, c) ==
  IF a = << >> THEN MagOfNat(c)
  ELSE LET s == a[1] * k + c
       IN  << s % Base >> \o MagMulDC(Tail(a), k, s \div Base)

RECURSIVE MagMul(_, _)
MagMul(a, b) ==
  IF a = << >> \/ b = << >> THEN << >>
  ELSE MagStrip(MagAdd(MagMulDC(b, a[1], 0), << 0 >> \o MagMul(Tail(a), b)))

BigZero == [neg |-> FALSE, mag |-> << >>]
BigOf(k) == [neg |-> k < 0, mag |-> MagOfNat(IF k < 0 THEN -k ELSE k)]
BigNorm(neg, mag) == [neg |-> neg /\ mag # << >>, mag |-> mag]
BigNeg(a) == BigNorm(~a.neg, a.mag)
BigMul(a, b) == BigNorm(a.neg # b.neg, MagMul(a.mag, b.mag))
BigAdd(a, b) ==
  IF a.neg = b.neg THEN BigNorm(a.neg, MagAdd(a.mag, b.mag))
  ELSE IF MagCmp(a.mag, b.mag) >= 0 THEN BigNorm(a.neg, MagSub(a.mag, b.mag))
  ELSE BigNorm(b.neg, MagSub(b.mag, a.mag))
BigSub(a, b) == BigAdd(a, BigNeg(b))
BigSign(a) == IF a.mag = << >> THEN 0 ELSE IF a.neg THEN -1 ELSE 1

\* quotient and remainder of a by a small k > 0
RECURSIVE MagDivMod(_, _)
MagDivMod(a, k) ==
  IF a = << >> THEN [q |-> << >>, r |-> 0]
  ELSE LET hi  == MagDivMod(Tail(a), k)
           cur == hi.r * Base + a[1]
       IN  [q |-> << cur \div k >> \o hi.q, r |-> cur % k]

(***************************************************************************)
(* Numbers (Python floats, read as exact rationals): [n, d] with d > 0,    *)
(* kept in lowest terms with respect to the prime factors the program's    *)
(* divisors can introduce (100, 12, 365, 10 and halves).                   *)
(***************************************************************************)
SmallPrimes == << 2, 3, 5, 73 >>

RECURSIVE ReduceBy(_, _)
ReduceBy(x, p) ==
  LET qn == MagDivMod(x.n.mag, p)
      qd == MagDivMod(x.d.mag, p)
  IN  IF x.n.mag # << >> /\ qn.r = 0 /\ qd.r = 0
      THEN ReduceBy([n |-> [neg |-> x.n.neg, mag |-> MagStrip(qn.q)],
                     d |-> [neg |-> FALSE, mag |-> MagStrip(qd.q)]], p)
      ELSE x

RECURSIVE ReduceFrom(_, _)
ReduceFrom(x, i) ==
  IF i > Len(SmallPrimes) THEN x
  ELSE ReduceFrom(ReduceBy(x, SmallPrimes[i]), i + 1)

\* sign carried by the numerator; zero is 0/1
Reduce(x) ==
  LET neg == x.n.neg # x.d.neg
  IN  IF x.n.mag = << >> THEN [n |-> BigZero, d |-> BigOf(1)]
      ELSE ReduceFrom([n |-> [neg |-> neg, mag |-> x.n.mag],
                       d |-> [neg |-> FALSE, mag |-> x.d.mag]], 1)

Num(p, q) == Reduce([n |-> BigOf(p), d |-> BigOf(q)])
NumAdd(x, y) ==
  Reduce([n |-> BigAdd(BigMul(x.n, y.d), BigMul(y.n, x.d)),
          d |-> BigMul(x.d, y.d)])
NumSub(x, y) ==
  Reduce([n |-> BigSub(BigMul(x.n, y.d), BigMul(y.n, x.d)),
          d |-> BigMul(x.d, y.d)])
NumMul(x, y) == Reduce([n |-> BigMul(x.n, y.n), d |-> BigMul(x.d, y.d)])
\* y # 0
NumDiv(x, y) == Reduce([n |-> BigMul(x.n, y.d), d |-> BigMul(x.d, y.n)])
NumSign(x) == BigSign(x.n)
NumEq(x, y) == BigMul(x.n, y.d) = BigMul(y.n, x.d)
NumLt(x, y) == BigSign(BigSub(BigMul(x.n, y.d), BigMul(y.n, x.d))) < 0
NumLe(x, y) == NumLt(x, y) \/ NumEq(x, y)
\* int(x) for x >= 0 with small numerator and denominator
RECURSIVE NatOfMag(_)
NatOfMag(a) == IF a = << >> THEN 0 ELSE a[1] + Base * NatOfMag(Tail(a))
NumInt(x) == NatOfMag(x.n.mag) \div NatOfMag(x.d.mag)

(***************************************************************************)
(* datetime.date: records [year, month, day] of the proleptic Gregorian    *)
(* calendar.                                                               *)
(***************************************************************************)
IsLeap(y) == (y % 4 = 0 /\ y % 100 # 0) \/ y % 400 = 0

DaysInMonth(y, m) ==
  IF m = 2 THEN (IF IsLeap(y) THEN 29 ELSE 28)
  ELSE IF m \in {4, 6, 9, 11} THEN 30 ELSE 31

Date(y, m, d) == [year |-> y, month |-> m, day |-> d]

ValidDate(dt) ==
  /\ dt.month \in 1..12
  /\ dt.day \in 1..DaysInMonth(dt.year, dt.month)

\* date.replace(year=y, month=m): the same day in another year and month;
\* raises ValueError when that is not a date of the calendar
DateReplace(dt, y, m) ==
  LET r == Date(y, m, dt.day)
  IN  IF ValidDate(r) THEN [ok |-> TRUE, date |-> r]
      ELSE [ok |-> FALSE, date |-> dt]

FirstOfNextMonth(dt) ==
  IF dt.month < 12 THEN Date(dt.year, dt.month + 1, 1)
  ELSE Date(dt.year + 1, 1, 1)

\* date + timedelta(days=n) for an integer n >= 0
RECURSIVE AddDays(_, _)
AddDays(dt, n) ==
  LET rest == DaysInMonth(dt.year, dt.month) - dt.day
  IN  IF n <= rest THEN Date(dt.year, dt.month, dt.day + n)
      ELSE AddDays(FirstOfNextMonth(dt), n - rest - 1)

DateKey(dt) == dt.year * 10000 + dt.month * 100 + dt.day
DateLe(a, b) == DateKey(a) <= DateKey(b)

(***************************************************************************)
(* calculate_investment                                                    *)
(***************************************************************************)
MonthsPerYear == 12
DaysPerYear == 365
One == Num(1, 1)
WithholdingRate == Num(10, 100)

\* lines 129-138: the maturity date, or ValueError raised by date.replace
MaturityDate(tenor_value, tenor_unit, effective_date) ==
  IF tenor_unit = "years"
  THEN DateReplace(effective_date,
                   effective_date.year + NumInt(tenor_value),
                   effective_date.month)
  ELSE IF tenor_unit = "months"
  THEN LET total_months == effective_date.month + NumInt(tenor_value)
           year_change  == total_months \div MonthsPerYear
           month_change == total_months % MonthsPerYear
       IN  DateReplace(effective_date,
                       effective_date.year + year_change, month_change)
  ELSE IF tenor_unit = "days"
  THEN [ok |-> TRUE, date |-> AddDays(effective_date, NumInt(tenor_value))]
  ELSE [ok |-> TRUE, date |-> effective_date]

\* lines 141-147
TenorInYears(tenor_value, tenor_unit) ==
  IF tenor_unit = "years" THEN tenor_value
  ELSE IF tenor_unit = "months"
  THEN NumDiv(tenor_value, Num(MonthsPerYear, 1))
  ELSE IF tenor_unit = "days"
  THEN NumDiv(tenor_value, Num(DaysPerYear, 1))
  ELSE Num(0, 1)

\* the rate as a percentage under the reading "at most 1 is a fraction,
\* above 1 is already a percentage"
RatePercentNormalized(r) ==
  IF NumLe(r, One) THEN NumMul(r, Num(100, 1)) ELSE r

\* variant of line 150 that normalises the rate before use
MaturityValueNormalized(principal, effective_rate, tenor_in_years) ==
  NumMul(principal,
         NumAdd(One, NumMul(NumDiv(RatePercentNormalized(effective_rate),
                                   Num(100, 1)), tenor_in_years)))

\* variant of line 150 that pays the interest net of the withholding tax
MaturityValueNetOfTax(principal, effective_rate, tenor_in_years) ==
  NumMul(principal,
         NumAdd(One, NumMul(Num(9, 10),
                            NumMul(effective_rate, tenor_in_years))))

\* line 150
MaturityValue(principal, effective_rate, tenor_in_years) ==
  NumMul(principal, NumAdd(One, NumMul(effective_rate, tenor_in_years)))

\* line 153
InterestGenerated(maturity_value, principal) ==
  NumSub(maturity_value, principal)

\* variant of line 154 with a misplaced decimal point
WithholdingTaxOnePercent(interest_generated) ==
  NumMul(interest_generated, Num(1, 100))

\* line 154
WithholdingTax(interest_generated) ==
  NumMul(interest_generated, WithholdingRate)

\* line 157
AmountDue(maturity_value, withholding_tax) ==
  NumSub(maturity_value, withholding_tax)

calculate_investment(principal, tenor_value, tenor_unit, effective_rate, effective_date) ==
  LET md  == MaturityDate(tenor_value, tenor_unit, effective_date)
      tiy == TenorInYears(tenor_value, tenor_unit)
      mv  == MaturityValue(principal, effective_rate, tiy)
      wht == WithholdingTax(InterestGenerated(mv, principal))
  IN  [ok              |-> md.ok,
       maturity_value  |-> mv,
       withholding_tax |-> wht,
       amount_due      |-> AmountDue(mv, wht),
       maturity_date   |-> md.date]

(***************************************************************************)
(* The program: get_user_input, the initial calculation and the rollover   *)
(* loop handle_rollovers.                                                  *)
(***************************************************************************)
VARIABLES
  pc,               \* position of the program
  closed,           \* standard input has reached end of file
  line,             \* what the last input() returned (its kind), or EOF
  error,            \* the uncaught exception that ended the program
  inputs,           \* investment_inputs, the record of get_user_input
  periods,          \* the summaries displayed so far, in order
  principal,        \* handle_rollovers: principal
  current_maturity, \* handle_rollovers: current_maturity
  rollover_count,   \* handle_rollovers: rollover_count
  tenor_value,      \* handle_rollovers: tenor_value
  tenor_unit,       \* handle_rollovers: tenor_unit
  effective_rate,   \* handle_rollovers: effective_rate
  bound,            \* the locals of handle_rollovers assigned so far
  configured        \* how the current pass of the rollover loop got its
                    \* tenor and its rate: not yet, reused, or entered

vars == << pc, closed, line, error, inputs, periods, principal, current_maturity,
           rollover_count, tenor_value, tenor_unit, effective_rate, bound,
           configured >>

\* Bounds of the model
MaxRollovers == 2
MinYear == 2023
MaxYear == 2024

Units == {"days", "months", "years"}

\* what a user types at the first prompts
Principals == {Num(100000, 1)}
Tenors == {Num(1, 1)}
Rates == {Num(8, 100), Num(8, 1)}
Dates == {Date(2024, 2, 29), Date(2023, 12, 15)}

\* every date of the calendar between MinYear and MaxYear
AllDates ==
  {dt \in [year : MinYear..MaxYear, month : 1..12, day : 1..31] :
     ValidDate(dt)}
AllTenors == {Num(1, 2), Num(1, 1), Num(3, 2), Num(11, 1), Num(12, 1)}

\* what a user types at the prompts of a rollover step
NewTenors == {Num(1, 2)}
NewRates == {Num(8, 1), Num(-2, 1)}

NoDate == Date(0, 0, 0)
Zero == Num(0, 1)
NotConfigured == [tenor |-> "none", rate |-> "none"]

Init ==
  /\ pc = "start"
  /\ closed = FALSE
  /\ line = "none"
  /\ error = "none"
  /\ inputs = [principal |-> Zero, tenor_value |-> Zero, tenor_unit |-> "",
               effective_rate |-> Zero, effective_date |-> NoDate]
  /\ periods = << >>
  /\ principal = Zero
  /\ current_maturity = NoDate
  /\ rollover_count = 0
  /\ tenor_value = Zero
  /\ tenor_unit = ""
  /\ effective_rate = Zero
  /\ bound = {}
  /\ configured = NotConfigured

locals == << principal, current_maturity, rollover_count, tenor_value,
             tenor_unit, effective_rate, bound, configured >>

\* lines 3-112: every field is prompted again until it is valid (principal
\* and tenor > 0, a unit of Units, any rate, a date of the calendar); end of
\* file at any prompt returns None and the program ends (line 190)
get_user_input(ps, ts, rs, ds) ==
  /\ pc = "start"
  /\ \/ /\ \E p \in ps, t \in ts, u \in Units, r \in rs, d \in ds :
             inputs' = [principal |-> p, tenor_value |-> t, tenor_unit |-> u,
                        effective_rate |-> r, effective_date |-> d]
        /\ pc' = "main"
        /\ line' = "date"
        /\ UNCHANGED closed
     \/ /\ closed' = TRUE
        /\ line' = "EOF"
        /\ pc' = "done"
        /\ UNCHANGED inputs
  /\ UNCHANGED << error, periods, locals >>

GetUserInput == get_user_input(Principals, Tenors, Rates, Dates)
GetUserInputAll == get_user_input(Principals, AllTenors, Rates, AllDates)

\* the record display_summary prints for one period
Period(p, tv, tu, rate, ed, r) ==
  [principal |-> p, tenor_value |-> tv, tenor_unit |-> tu,
   effective_rate |-> rate, effective_date |-> ed,
   maturity_value |-> r.maturity_value,
   withholding_tax |-> r.withholding_tax,
   amount_due |-> r.amount_due, maturity_date |-> r.maturity_date]

\* variant of lines 208 and 330 that rolls the gross maturity value over
NextPrincipalGross(r) == r.maturity_value

\* lines 208 and 330: the principal of the next period
NextPrincipal(r) == r.amount_due

\* variant of lines 209 and 331 that keeps the first effective date
NextMaturityFirst(r) == inputs.effective_date

\* lines 209 and 331: the maturity date the next period starts from
NextMaturity(r) == r.maturity_date

\* variant of line 303 that restarts from the first effective date
RolloverEffectiveDateInitial(cur) == inputs.effective_date

\* line 303: the effective date of a rollover period
RolloverEffectiveDate(cur) == cur

\* lines 237-238: "previous tenor" is the tenor of the dict passed to
\* handle_rollovers, the inputs of the first period
PreviousTenor ==
  [tenor_value |-> inputs.tenor_value, tenor_unit |-> inputs.tenor_unit]

\* line 284: "previous effective rate" is the rate of the first period
PreviousRate == inputs.effective_rate

\* lines 313-324: the record of a rollover period, a new dict
RolloverInputs(p, tv, tu, rate, ed) ==
  [principal |-> p, tenor_value |-> tv, tenor_unit |-> tu,
   effective_rate |-> rate, effective_date |-> ed]

\* variant of lines 313-324 that writes the period into the dict passed in
InputsOverwritten(rollover_inputs) == rollover_inputs

\* lines 313-331: handle_rollovers reads inputs and never writes to it
InputsKept(rollover_inputs) == inputs

\* variant of lines 250-300 that gives the rollover loop up
AfterRejectedAbort(here) == "done"

\* lines 250, 255, 258, 269, 295 and 300: after an entry that is not
\* accepted the loop of the field goes round again
AfterRejected(here) == here

\* lines 191-210 and 336: the initial calculation, its summary, and the
\* entry of handle_rollovers with the amount due and the maturity date
MainCalc ==
  /\ pc = "main"
  /\ LET r == calculate_investment(inputs.principal, inputs.tenor_value,
                                   inputs.tenor_unit, inputs.effective_rate,
                                   inputs.effective_date)
     IN  IF r.ok
         THEN /\ periods' = << Period(inputs.principal, inputs.tenor_value,
                                      inputs.tenor_unit, inputs.effective_rate,
                                      inputs.effective_date, r) >>
              /\ principal' = NextPrincipal(r)
              /\ current_maturity' = NextMaturity(r)
              /\ rollover_count' = 0
              /\ pc' = "decision"
              /\ UNCHANGED error
         ELSE /\ pc' = "crashed"
              /\ error' = "ValueError"
              /\ UNCHANGED << periods, principal, current_maturity,
                              rollover_count >>
  /\ UNCHANGED << closed, line, inputs, tenor_value, tenor_unit,
                  effective_rate, bound, configured >>

\* input(): end of file once the input is closed, else a line of the set or
\* the end of the input
Reads(lines) == IF closed THEN {"EOF"} ELSE lines \cup {"EOF"}

\* lines 212-225
Decision ==
  /\ pc = "decision"
  /\ \E choice \in Reads({"yes", "no", "other"}) :
       /\ line' = choice
       /\ closed' = (choice = "EOF")
       /\ IF choice \in {"EOF", "no"}
          THEN pc' = "done" /\ UNCHANGED << rollover_count, configured >>
          ELSE IF choice = "other"
          THEN pc' = "decision" /\ UNCHANGED << rollover_count, configured >>
          ELSE /\ rollover_count < MaxRollovers
               /\ rollover_count' = rollover_count + 1
               /\ configured' = NotConfigured
               /\ pc' = "reuse_tenor"
  /\ UNCHANGED << error, inputs, periods, principal, current_maturity,
                  tenor_value, tenor_unit, effective_rate, bound >>

\* lines 228-240 and 272
ReuseTenor ==
  /\ pc = "reuse_tenor"
  /\ \E reuse \in Reads({"yes", "no", "other"}) :
       /\ line' = reuse
       /\ closed' = (reuse = "EOF")
       /\ IF reuse = "EOF"
          THEN pc' = "reuse_rate"
               /\ UNCHANGED << tenor_value, tenor_unit, bound, configured >>
          ELSE IF reuse = "yes"
          THEN /\ tenor_value' = PreviousTenor.tenor_value
               /\ tenor_unit' = PreviousTenor.tenor_unit
               /\ bound' = bound \cup {"tenor_value", "tenor_unit"}
               /\ configured' = [configured EXCEPT !.tenor = "previous"]
               /\ pc' = "reuse_rate"
          ELSE IF reuse = "no"
          THEN pc' = "new_tenor_value"
               /\ UNCHANGED << tenor_value, tenor_unit, bound, configured >>
          ELSE pc' = "reuse_tenor"
               /\ UNCHANGED << tenor_value, tenor_unit, bound, configured >>
  /\ UNCHANGED << error, inputs, periods, principal, current_maturity,
                  rollover_count, effective_rate >>

\* lines 242-258: one pass of the loop that reads the new tenor value; end
\* of file is taken as the empty line (line 247)
NewTenorValue ==
  /\ pc = "new_tenor_value"
  /\ \E tenor_str \in Reads({"empty", "text", "zero", "number"}) :
       /\ line' = tenor_str
       /\ closed' = (tenor_str = "EOF")
       /\ IF tenor_str \in {"EOF", "empty", "text"}
          THEN /\ pc' = AfterRejected("new_tenor_value")
               /\ UNCHANGED << tenor_value, bound >>
          ELSE IF tenor_str = "zero"
          THEN /\ tenor_value' = Zero
               /\ bound' = bound \cup {"tenor_value"}
               /\ pc' = AfterRejected("new_tenor_value")
          ELSE /\ \E t \in NewTenors : tenor_value' = t
               /\ bound' = bound \cup {"tenor_value"}
               /\ pc' = "new_tenor_unit"
  /\ UNCHANGED << error, inputs, periods, principal, current_maturity,
                  rollover_count, tenor_unit, effective_rate, configured >>

\* lines 261-271: one pass of the loop that reads the new tenor unit; end of
\* file is taken as the empty line (line 266)
NewTenorUnit ==
  /\ pc = "new_tenor_unit"
  /\ \E u \in Reads(Units \cup {"weeks"}) :
       /\ line' = u
       /\ closed' = (u = "EOF")
       /\ tenor_unit' = IF u = "EOF" THEN "" ELSE u
       /\ bound' = bound \cup {"tenor_unit"}
       /\ configured' = IF u \in Units
                        THEN [configured EXCEPT !.tenor = "entered"]
                        ELSE configured
       /\ pc' = IF u \in Units THEN "reuse_rate"
                ELSE AfterRejected("new_tenor_unit")
  /\ UNCHANGED << error, inputs, periods, principal, current_maturity,
                  rollover_count, tenor_value, effective_rate >>

\* lines 275-286 and 302
ReuseRate ==
  /\ pc = "reuse_rate"
  /\ \E use_prev_rate \in Reads({"yes", "no", "other"}) :
       /\ line' = use_prev_rate
       /\ closed' = (use_prev_rate = "EOF")
       /\ IF use_prev_rate = "EOF"
          THEN pc' = "compute"
               /\ UNCHANGED << effective_rate, bound, configured >>
          ELSE IF use_prev_rate = "yes"
          THEN /\ effective_rate' = PreviousRate
               /\ bound' = bound \cup {"effective_rate"}
               /\ configured' = [configured EXCEPT !.rate = "previous"]
               /\ pc' = "compute"
          ELSE IF use_prev_rate = "no"
          THEN pc' = "new_rate"
               /\ UNCHANGED << effective_rate, bound, configured >>
          ELSE pc' = "reuse_rate"
               /\ UNCHANGED << effective_rate, bound, configured >>
  /\ UNCHANGED << error, inputs, periods, principal, current_maturity,
                  rollover_count, tenor_value, tenor_unit >>

\* lines 287-301: one pass of the loop that reads the new rate; end of file
\* is taken as the empty line (line 292)
NewRate ==
  /\ pc = "new_rate"
  /\ \E rate_str \in Reads({"empty", "text", "number"}) :
       /\ line' = rate_str
       /\ closed' = (rate_str = "EOF")
       /\ IF rate_str = "number"
          THEN /\ \E r \in NewRates : effective_rate' = r
               /\ bound' = bound \cup {"effective_rate"}
               /\ configured' = [configured EXCEPT !.rate = "entered"]
               /\ pc' = "compute"
          ELSE /\ pc' = AfterRejected("new_rate")
               /\ UNCHANGED << effective_rate, bound, configured >>
  /\ UNCHANGED << error, inputs, periods, principal, current_maturity,
                  rollover_count, tenor_value, tenor_unit >>

\* lines 303-331: the calculation of the rollover period, its summary and
\* the hand-over to the next pass; reading a local that was never assigned
\* raises UnboundLocalError, date.replace may raise ValueError
Compute ==
  /\ pc = "compute"
  /\ IF ~ ({"tenor_value", "tenor_unit", "effective_rate"} \subseteq bound)
     THEN /\ pc' = "crashed"
          /\ error' = "UnboundLocalError"
          /\ UNCHANGED << inputs, periods, principal, current_maturity >>
     ELSE LET effective_date == RolloverEffectiveDate(current_maturity)
              r == calculate_investment(principal, tenor_value, tenor_unit,
                                        effective_rate, effective_date)
              rollover_inputs == RolloverInputs(principal, tenor_value,
                                                tenor_unit, effective_rate,
                                                effective_date)
          IN  IF r.ok
              THEN /\ periods' = Append(periods,
                                   Period(principal, tenor_value, tenor_unit,
                                          effective_rate, effective_date, r))
                   /\ inputs' = InputsKept(rollover_inputs)
                   /\ principal' = NextPrincipal(r)
                   /\ current_maturity' = NextMaturity(r)
                   /\ pc' = "decision"
                   /\ UNCHANGED error
              ELSE /\ pc' = "crashed"
                   /\ error' = "ValueError"
                   /\ UNCHANGED << inputs, periods, principal,
                                   current_maturity >>
  /\ UNCHANGED << closed, line, rollover_count, tenor_value,
                  tenor_unit, effective_rate, bound, configured >>

Next ==
  \/ GetUserInput
  \/ MainCalc
  \/ Decision
  \/ ReuseTenor
  \/ NewTenorValue
  \/ NewTenorUnit
  \/ ReuseRate
  \/ NewRate
  \/ Compute

Spec == Init /\ [][Next]_vars

\* calculate_investment over every date, tenor and unit
NextCalc ==
  \/ GetUserInputAll
  \/ MainCalc

CalcSpec == Init /\ [][NextCalc]_vars

(***************************************************************************)
(* Properties                                                              *)
(***************************************************************************)
Min(a, b) == IF a <= b THEN a ELSE b

\* the initial calculation has run (it returned or it raised)
MainCalcRan == pc \notin {"start", "main"} /\ inputs.tenor_unit \in Units

\* the date n months after dt, the day clamped to the length of the month
AddMonthsClamped(dt, n) ==
  LET idx == (dt.month - 1) + n
      y   == dt.year + idx \div 12
      m   == (idx % 12) + 1
  IN  Date(y, m, Min(dt.day, DaysInMonth(y, m)))

\* the date n years after dt, the day clamped to the length of the month
AddYearsClamped(dt, n) ==
  Date(dt.year + n, dt.month,
       Min(dt.day, DaysInMonth(dt.year + n, dt.month)))

\* C1: for a tenor in months the initial calculation always returns, and the
\* maturity date is the effective date moved by int(tenor) months with the
\* day clamped to the last day of the resulting month.
C1_MonthsClamped ==
  (MainCalcRan /\ inputs.tenor_unit = "months") =>
     /\ pc # "crashed"
     /\ Len(periods) >= 1
     /\ periods[1].maturity_date =
          AddMonthsClamped(inputs.effective_date, NumInt(inputs.tenor_value))

\* C2: for a tenor in years the initial calculation always returns, and the
\* maturity date is the same month of year + int(tenor) with the day clamped
\* to the last day of that month.
C2_YearsClamped ==
  (MainCalcRan /\ inputs.tenor_unit = "years") =>
     /\ pc # "crashed"
     /\ Len(periods) >= 1
     /\ periods[1].maturity_date =
          AddYearsClamped(inputs.effective_date, NumInt(inputs.tenor_value))

\* the interest of a displayed period and the figures it is made of
InterestOf(p) == NumSub(p.maturity_value, p.principal)
YearFractionOf(p) == TenorInYears(p.tenor_value, p.tenor_unit)
GrossInterest(p) ==
  NumMul(NumMul(p.principal, p.effective_rate), YearFractionOf(p))
RolloverIdx == 2..Len(periods)

\* a step that computes and displays a period, that period, and the one
\* before it (for a rollover step)
Displays == periods' # periods
Rolls == Displays /\ Len(periods) >= 1
Displayed == periods'[Len(periods')]
Previous == periods[Len(periods)]

RateNormalizedIn(p) ==
  NumEq(InterestOf(p),
        NumMul(NumMul(p.principal,
                      NumDiv(RatePercentNormalized(p.effective_rate),
                             Num(100, 1))),
               YearFractionOf(p)))

\* C3 as stated: the interest of every period, the first and every rollover
\* period, is the principal at the normalised percentage (r*100 for r <= 1,
\* r for r > 1) over the year fraction, so that the rates 0.08 and 8 yield
\* the same interest.
C3_RateNormalized == [][Displays => RateNormalizedIn(Displayed)]_vars

RateAsFractionIn(p) ==
  LET percent == NumMul(p.effective_rate, Num(100, 1))
  IN  /\ NumEq(NumMul(InterestOf(p), Num(100, 1)),
               NumMul(NumMul(p.principal, percent), YearFractionOf(p)))
      /\ ( /\ NumEq(p.principal, Num(100000, 1))
           /\ p.tenor_unit = "years"
           /\ NumEq(p.tenor_value, One) ) =>
           /\ NumEq(p.effective_rate, Num(8, 100)) =>
                /\ NumEq(InterestOf(p), Num(8000, 1))
                /\ NumEq(p.withholding_tax, Num(800, 1))
           /\ NumEq(p.effective_rate, Num(8, 1)) =>
                /\ NumEq(InterestOf(p), Num(800000, 1))
                /\ NumEq(p.withholding_tax, Num(80000, 1))

\* C3 amended: the rate is used as entered, as the fraction r (r*100 per
\* cent), below and above 1 alike, in the first period and in every rollover
\* period; 100000 at 0.08 for 1 year yields 8000 of interest and 800 of tax,
\* and at 8 it yields 800000 and 80000.
C3_RateUsedAsFraction == [][Displays => RateAsFractionIn(Displayed)]_vars

\* a first period at 0.08 for one year followed by a rollover at rate 8
C3_Witness ==
  /\ Len(periods) >= 2
  /\ periods[1].effective_rate = Num(8, 100)
  /\ periods[1].tenor_unit = "years"
  /\ periods[1].tenor_value = One
  /\ periods[2].effective_rate = Num(8, 1)

\* C4 as stated: the principal of every rollover period is the previous
\* principal plus the previous gross interest (no tax deducted).
C4_PrincipalIsGrossMaturity ==
  [][Rolls => NumEq(Displayed.principal,
                    NumAdd(Previous.principal, GrossInterest(Previous)))]_vars

\* C4 amended: the principal of every rollover period is the previous
\* period's amount due, the previous principal plus the previous gross
\* interest less the 10% withholding tax on that interest.
C4_PrincipalIsAmountDue ==
  [][Rolls =>
       /\ Displayed.principal = Previous.amount_due
       /\ NumEq(Displayed.principal,
                NumAdd(Previous.principal,
                       NumMul(Num(9, 10), GrossInterest(Previous))))]_vars

\* two rollovers, each after a period that earned interest
C4_Witness ==
  /\ Len(periods) >= 3
  /\ NumSign(GrossInterest(periods[1])) # 0
  /\ NumSign(GrossInterest(periods[2])) # 0

\* C5: the effective date of every rollover period is the maturity date of
\* the period before it.
C5_EffectiveIsPreviousMaturity ==
  [][Rolls => Displayed.effective_date = Previous.maturity_date]_vars

\* two rollovers, one with a new tenor and one with a new rate
C5_Witness ==
  /\ Len(periods) >= 3
  /\ \E k \in RolloverIdx : periods[k].tenor_value # inputs.tenor_value
  /\ \E k \in RolloverIdx : periods[k].effective_rate # inputs.effective_rate

LoopPositions ==
  {"decision", "reuse_tenor", "new_tenor_value", "new_tenor_unit",
   "reuse_rate", "new_rate", "compute"}

\* C6: when end of file is read at a prompt of the rollover loop, the loop
\* does not come back to that prompt (a closed input answers every later
\* read with end of file, so that coming back to the prompt is prompting
\* forever).
C6_ClosedInputLeavesPrompt ==
  [][(pc \in LoopPositions /\ line' = "EOF" /\ closed') => pc' # pc]_vars

NumericPrompts == {"new_tenor_value", "new_rate"}

\* C7 as stated: an invalid entry for the new tenor value or the new rate
\* ends the rollover loop without a period for that step.
C7_InvalidEntryAborts ==
  [][(pc \in NumericPrompts /\ line' \in {"text", "zero"}) =>
       (pc' = "done" /\ periods' = periods)]_vars

\* C7 amended: an invalid entry (empty, not a number, or a tenor that is not
\* positive) for the new tenor value or the new rate does not end the
\* rollover loop: no period is computed on it and the same field is prompted
\* again.
C7_InvalidEntryReprompts ==
  [][(pc \in NumericPrompts /\ line' \in {"empty", "text", "zero"}) =>
       /\ pc' = pc
       /\ periods' = periods
       /\ rollover_count' = rollover_count
       /\ error' = error]_vars

\* the rate prompt is up again after an entry that is not a number, in a step
\* whose new tenor was accepted
C7_Witness ==
  /\ pc = "new_rate"
  /\ line = "text"
  /\ tenor_value \in NewTenors

YearLength(y) == IF IsLeap(y) THEN 366 ELSE 365

RECURSIVE DaysBeforeMonth(_, _)
DaysBeforeMonth(y, m) ==
  IF m = 1 THEN 0 ELSE DaysBeforeMonth(y, m - 1) + DaysInMonth(y, m - 1)

DayOfYear(dt) == DaysBeforeMonth(dt.year, dt.month) + dt.day

\* actual/actual: per calendar year the inclusive overlap over its length
RECURSIVE ActualActualFrom(_, _, _)
ActualActualFrom(y, start, end) ==
  IF y > end.year THEN Zero
  ELSE LET from == IF y = start.year THEN DayOfYear(start) ELSE 1
           to   == IF y = end.year THEN DayOfYear(end) ELSE YearLength(y)
       IN  NumAdd(Num(to - from + 1, YearLength(y)),
                  ActualActualFrom(y + 1, start, end))

ActualActual(start, end) ==
  IF DateLe(start, end) THEN ActualActualFrom(start.year, start, end)
  ELSE Zero

ActualActualIn(p) ==
  NumEq(InterestOf(p),
        NumMul(NumMul(p.principal, p.effective_rate),
               ActualActual(p.effective_date, p.maturity_date)))

\* C8: the interest of every period is the yearly interest times the
\* actual/actual year fraction between its effective and maturity dates.
C8_ActualActualFraction == [][Displays => ActualActualIn(Displayed)]_vars

MaturityIsGrossIn(p) ==
  NumEq(p.maturity_value, NumAdd(p.principal, GrossInterest(p)))

\* C9: the maturity value of every period is the principal plus the whole
\* interest principal x rate x year fraction; no tax is taken out of it.
C9_MaturityIsPrincipalPlusInterest ==
  [][Displays => MaturityIsGrossIn(Displayed)]_vars

\* a first period on which tax is due
C9_Witness ==
  /\ Len(periods) >= 1
  /\ NumSign(periods[1].withholding_tax) > 0
  /\ NumLt(periods[1].amount_due, periods[1].maturity_value)

TaxIsTenthIn(p) ==
  LET net == NumSub(p.amount_due, p.principal)
  IN  /\ NumEq(NumMul(p.withholding_tax, Num(10, 1)), InterestOf(p))
      /\ NumEq(NumMul(net, Num(10, 1)), NumMul(InterestOf(p), Num(9, 1)))
      /\ NumEq(NumAdd(p.withholding_tax, net), InterestOf(p))

\* C10: in every period the withholding tax is a tenth of the interest, the
\* amount due adds nine tenths of the interest to the principal, and the two
\* add up to the interest.
C10_TaxIsTenthOfInterest == [][Displays => TaxIsTenthIn(Displayed)]_vars

\* a rollover period at a negative rate: interest and tax below zero
C10_Witness ==
  /\ Len(periods) >= 2
  /\ NumSign(InterestOf(periods[2])) < 0
  /\ NumSign(periods[2].withholding_tax) < 0

\* C11: every rollover period matures on or after the maturity date of the
\* period before it, whatever tenor (greater than 0) and unit it has.
C11_MaturityNonDecreasing ==
  [][Rolls => DateLe(Previous.maturity_date, Displayed.maturity_date)]_vars

\* two rollovers: one that matures later than the period before it, and one
\* with a tenor below 1 that matures on the same day
C11_Witness ==
  /\ Len(periods) >= 3
  /\ \E k \in RolloverIdx :
       DateKey(periods[k - 1].maturity_date) < DateKey(periods[k].maturity_date)
  /\ \E k \in RolloverIdx :
       /\ NumLt(periods[k].tenor_value, One)
       /\ periods[k].maturity_date = periods[k - 1].maturity_date

\* what calculate_investment returns for the inputs of the first period with
\* the tenor cut down to its integer part
TruncatedCalc ==
  calculate_investment(inputs.principal,
                       Num(NumInt(inputs.tenor_value), 1), inputs.tenor_unit,
                       inputs.effective_rate, inputs.effective_date)

\* C12: for years and months a tenor v and the tenor int(v) give the same
\* maturity date and the same maturity value, withholding tax and amount due
\* (1.5 years behaves exactly as 1 year).
C12_FractionTruncated ==
  (MainCalcRan /\ inputs.tenor_unit \in {"years", "months"}
               /\ Len(periods) >= 1) =>
     /\ TruncatedCalc.ok
     /\ periods[1].maturity_date = TruncatedCalc.maturity_date
     /\ NumEq(periods[1].maturity_value, TruncatedCalc.maturity_value)
     /\ NumEq(periods[1].withholding_tax, TruncatedCalc.withholding_tax)
     /\ NumEq(periods[1].amount_due, TruncatedCalc.amount_due)

\* C13: a tenor between 0 and 1, whose integer offset is 0, yields a maturity
\* date equal to the effective date, for every effective date and every unit.
C13_ZeroOffsetSameDate ==
  (MainCalcRan /\ NumInt(inputs.tenor_value) = 0) =>
     /\ pc # "crashed"
     /\ Len(periods) >= 1
     /\ periods[1].maturity_date = inputs.effective_date

TenorConfigured == configured.tenor # "none"
RateConfigured == configured.rate # "none"

\* C14: at the decision prompt "no" (or the empty line) ends the loop with no
\* further period and only "yes" starts a rollover step; every period the
\* loop emits comes after a yes decision of its own, then a tenor
\* configuration (reuse or new value and unit), then a rate configuration
\* (reuse or new rate), and leaves the loop at the decision prompt.
C14_StepOrder ==
  [][ /\ (pc = "decision" /\ line' = "no") =>
            (pc' = "done" /\ periods' = periods)
      /\ (pc = "decision" /\ pc' = "reuse_tenor") => line' = "yes"
      /\ (configured'.rate # configured.rate /\ configured'.rate # "none") =>
            TenorConfigured
      /\ Rolls =>
            /\ Len(periods') = rollover_count + 1
            /\ TenorConfigured
            /\ RateConfigured
            /\ pc' = "decision" ]_vars

\* C15: a rollover step that chose "use previous" for the tenor has the tenor
\* value and unit of the period before it, and one that chose "use previous"
\* for the rate has the rate of the period before it.
C15_ReusesPrecedingPeriod ==
  [][Rolls =>
       /\ configured.tenor = "previous" =>
            /\ NumEq(Displayed.tenor_value, Previous.tenor_value)
            /\ Displayed.tenor_unit = Previous.tenor_unit
       /\ configured.rate = "previous" =>
            NumEq(Displayed.effective_rate, Previous.effective_rate)]_vars

\* the three arguments a rollover step configures have a value, so that the
\* call of line 305 is made
AllBound == {"tenor_value", "tenor_unit", "effective_rate"} \subseteq bound

\* C16: every call of calculate_investment made by a rollover step comes
\* after a tenor and a rate were assigned in that same step; after end of
\* file at the reuse-tenor or reuse-rate prompt no call is made.
C16_CallUsesValuesOfItsStep ==
  [][(pc = "compute" /\ AllBound /\ pc' # pc) =>
       /\ TenorConfigured
       /\ RateConfigured
       /\ line # "EOF"]_vars

\* C17: every call of calculate_investment, the first and every call of a
\* rollover step, receives a principal > 0, a tenor value > 0 and a unit of
\* days, months, years; the principal handed to the next period is > 0.
C17_CallArgumentsValid ==
  /\ pc = "main" =>
       /\ NumSign(inputs.principal) > 0
       /\ NumSign(inputs.tenor_value) > 0
       /\ inputs.tenor_unit \in Units
  /\ (pc = "compute" /\ AllBound) =>
       /\ NumSign(principal) > 0
       /\ NumSign(tenor_value) > 0
       /\ tenor_unit \in Units
  /\ pc \in LoopPositions => NumSign(principal) > 0

\* the investment record a displayed period was computed from
RecordOf(p) ==
  [principal |-> p.principal, tenor_value |-> p.tenor_value,
   tenor_unit |-> p.tenor_unit, effective_rate |-> p.effective_rate,
   effective_date |-> p.effective_date]

\* C18: once entered, the record of the initial investment is never changed,
\* it stays the record of the first period, and a step only appends the
\* record of its own period: the periods before it are left as they were.
C18_InitialRecordKept ==
  [][pc # "start" =>
       /\ inputs' = inputs
       /\ Len(periods') \in {Len(periods), Len(periods) + 1}
       /\ SubSeq(periods', 1, Len(periods)) = periods
       /\ Len(periods') >= 1 => RecordOf(periods'[1]) = inputs']_vars

\* two rollovers with a tenor and a rate that differ from the initial ones,
\* after which the initial record is still that of the first period
C18_Witness ==
  /\ Len(periods) >= 3
  /\ \A k \in RolloverIdx :
       /\ periods[k].tenor_value # inputs.tenor_value
       /\ periods[k].effective_rate # inputs.effective_rate
  /\ RecordOf(periods[1]) = inputs

====
